---- MODULE Spec2Model ----
(***************************************************************************)
(* create_policy_page.py: one AsciiDoc page per ODRL policy of an RDF      *)
(* graph.  Text is modelled as sequences of one-character strings, the     *)
(* graph as a set of triples <<subject, predicate, object>>.               *)
(***************************************************************************)
EXTENDS Naturals, Sequences, FiniteSets

VARIABLES catalog_graph, policy_arg, pc, policy_uris, pending, policy,
          title, description, permissions, obligations, prohibitions, writes

vars == <<catalog_graph, policy_arg, pc, policy_uris, pending, policy,
          title, description, permissions, obligations, prohibitions, writes>>

(* Largest number of triples of a graph the model starts from. *)
MaxTriples == 4

(* The same, for the specification that is checked for termination. *)
MaxTriplesFair == 3

------------------------------------------------------------------------------
(* Text constants of the program. *)

NoneText == <<"N","o","n","e">>
Permissions == <<"P","e","r","m","i","s","s","i","o","n","s">>
Obligations == <<"O","b","l","i","g","a","t","i","o","n","s">>
Prohibitions == <<"P","r","o","h","i","b","i","t","i","o","n","s">>
NoPrefix == <<"*","N","o"," ">>
DefinedSuffix == <<" ","d","e","f","i","n","e","d",".","*","\n","\n">>
TableOpen == <<"\n","|","=","=","=","\n","|"," ","U","I","D"," ","|"," ","D","e","s","c","r","i","p","t","i","o","n"," ","|"," ","A","c","t","i","o","n"," ","|"," ","A","s","s","i","g","n","e","e","(","s",")","\n","\n">>
TableClose == <<"|","=","=","=","\n","\n">>
OutputDir == <<"m","o","d","u","l","e","s","/","p","o","l","i","c","y","/","p","a","g","e","s","/">>
UpperCase == <<"A","B","C","D","E","F","G","H","I","J","K","L","M","N","O","P","Q","R","S","T","U","V","W","X","Y","Z">>
LowerCase == <<"a","b","c","d","e","f","g","h","i","j","k","l","m","n","o","p","q","r","s","t","u","v","w","x","y","z">>

------------------------------------------------------------------------------
(* RDF terms: URI references and literals, and Python's None. *)

URIRef(text) == [kind |-> "uri", text |-> text]
Literal(text) == [kind |-> "lit", text |-> text]
None == [kind |-> "none", text |-> <<>>]

P1 == URIRef(<<"p","1">>)
P2 == URIRef(<<"p","2">>)
R1 == URIRef(<<"r","1">>)
R2 == URIRef(<<"r","2">>)
A1 == URIRef(<<"a","1">>)
A2 == Literal(<<"D","P">>)
ODRL_Policy == URIRef(<<"P","o","l","i","c","y">>)
ODRL_Asset == URIRef(<<"A","s","s","e","t">>)

(* The triples a graph of the model is drawn from. *)
Universe ==
  { <<P1, "type", ODRL_Policy>>,
    <<P2, "type", ODRL_Policy>>,
    <<P2, "type", ODRL_Asset>>,
    <<P1, "title", Literal(<<"T">>)>>,
    <<P1, "title", Literal(NoneText)>>,
    <<P1, "description", Literal(<<"D">>)>>,
    <<P1, "description", Literal(<<>>)>>,
    <<P1, "permission", R1>>,
    <<P1, "permission", R2>>,
    <<P1, "obligation", R1>>,
    <<P1, "prohibition", R2>>,
    <<P2, "obligation", R2>>,
    <<R1, "description", Literal(<<"a","|","b">>)>>,
    <<R2, "description", Literal(<<"|","|">>)>>,
    <<R1, "action", Literal(<<"r">>)>>,
    <<R2, "action", Literal(<<"x","|","y">>)>>,
    <<R1, "assignee", A1>>,
    <<R1, "assignee", A2>>
  }

RECURSIVE SubsetsUpTo(_, _)
SubsetsUpTo(S, k) ==
  IF k = 0 THEN {{}}
  ELSE LET prev == SubsetsUpTo(S, k - 1)
       IN  prev \cup {g \cup {t} : g \in prev, t \in S}

Graphs == SubsetsUpTo(Universe, MaxTriples)

(* Values the caller may pass as the policy argument. *)
PolicyArgs == {P1, R1}

------------------------------------------------------------------------------
(* Graph queries used by the program. *)

subjects(g, p, o) == {t[1] : t \in {x \in g : x[2] = p /\ x[3] = o}}

objects(g, s, p) == {t[3] : t \in {x \in g : x[1] = s /\ x[2] = p}}

(* Graph.value: one of the objects, or None when there is none. *)
value(g, s, p) == IF objects(g, s, p) = {} THEN {None} ELSE objects(g, s, p)

(* The orders in which a query may yield the members of S. *)
Orders(S) ==
  {f \in [1..Cardinality(S) -> S] : \A i, j \in 1..Cardinality(S) : f[i] = f[j] => i = j}

------------------------------------------------------------------------------
(* Python string operations. *)

str(x) == IF x = None THEN NoneText ELSE x.text

(* Truth value of a term: None and the empty string are false. *)
Truthy(x) == x # None /\ Len(x.text) > 0

(* Variant: the value is converted without the `or ""`. *)
str_unguarded(x) == str(x)

(* str(x or "") *)
str_or_empty(x) == IF Truthy(x) THEN str(x) ELSE <<>>

RECURSIVE IndexOf(_, _, _)
IndexOf(c, s, i) ==
  IF i > Len(s) THEN 0 ELSE IF s[i] = c THEN i ELSE IndexOf(c, s, i + 1)

LowerChar(c) ==
  LET i == IndexOf(c, UpperCase, 1) IN IF i = 0 THEN c ELSE LowerCase[i]

lower(s) == [i \in 1..Len(s) |-> LowerChar(s[i])]

(* Variant: the pipe is not escaped. *)
ReplaceCharVerbatim(c) == <<c>>

(* One character of descr.replace("|", "\\|"). *)
ReplaceChar(c) == IF c = "|" THEN <<"\\", "|">> ELSE <<c>>

RECURSIVE replace(_)
replace(s) == IF s = <<>> THEN <<>> ELSE ReplaceChar(Head(s)) \o replace(Tail(s))

RECURSIVE join(_, _)
join(sep, parts) ==
  IF parts = <<>> THEN <<>>
  ELSE IF Len(parts) = 1 THEN parts[1]
  ELSE parts[1] \o sep \o join(sep, Tail(parts))

------------------------------------------------------------------------------
(* _format_odrl_section *)

(* Variant: the lowercased section name is given a plural "s". *)
EmptySectionPlural(section_name) ==
  NoPrefix \o lower(section_name) \o <<"s">> \o DefinedSuffix

EmptySection(section_name) == NoPrefix \o lower(section_name) \o DefinedSuffix

AssigneeStr(assignees) == IF assignees # <<>> THEN join(<<",", " ">>, assignees) ELSE <<>>

TableRow(item) ==
  <<"|", " ">> \o item[1] \o <<" ", "|", " ">> \o replace(item[2]) \o <<" ", "|", " ">>
    \o item[3] \o <<" ", "|", " ">> \o AssigneeStr(item[4]) \o <<"\n">>

RECURSIVE TableRows(_)
TableRows(items) ==
  IF items = <<>> THEN <<>> ELSE TableRow(Head(items)) \o TableRows(Tail(items))

format_odrl_section(section_name, items) ==
  IF items = <<>> THEN EmptySection(section_name)
  ELSE <<".">> \o section_name \o TableOpen \o TableRows(items) \o TableClose

------------------------------------------------------------------------------
(* create_policy_page *)

(* Variant: the type triple's object is not compared with odrl:Policy. *)
PolicyUrisAnyType(g) == {t[1] : t \in {x \in g : x[2] = "type"}}

PolicyUris(g) == subjects(g, "type", ODRL_Policy)

(* Variant: no fall-back to the policy's identifier. *)
ResolveTitleNoFallback(v, p) == str(v)

ResolveTitle(v, p) ==
  LET t == str(v) IN IF t = NoneText THEN str(p) ELSE t

ResolveDescription(v) ==
  LET d == str(v) IN IF d = NoneText THEN <<>> ELSE d

(* The tuples the loop body may append for rule r. *)
RuleItems(g, r) ==
  { <<str(r), str_or_empty(dv), str_or_empty(av), [i \in DOMAIN ord |-> str(ord[i])]>> :
      dv \in value(g, r, "description"),
      av \in value(g, r, "action"),
      ord \in Orders(objects(g, r, "assignee")) }

(* Variant: every loop traverses odrl:permission. *)
CollectPermissionOnly(g, p, pred) ==
  UNION { { items \in [1..Len(ord) -> UNION {RuleItems(g, r) : r \in objects(g, p, "permission")}] :
              \A i \in 1..Len(ord) : items[i] \in RuleItems(g, ord[i]) } :
          ord \in Orders(objects(g, p, "permission")) }

(* The lists one loop over graph.objects(policy, pred) may build. *)
Collect(g, p, pred) ==
  UNION { { items \in [1..Len(ord) -> UNION {RuleItems(g, r) : r \in objects(g, p, pred)}] :
              \A i \in 1..Len(ord) : items[i] \in RuleItems(g, ord[i]) } :
          ord \in Orders(objects(g, p, pred)) }

(* Variant: the obligations are rendered before the permissions. *)
BuildAdocSwapped(t, d, perms, obls, pros) ==
  <<"=", " ">> \o t \o <<"\n", "\n">>
    \o (IF d # <<>> THEN d \o <<"\n", "\n">> ELSE <<>>)
    \o format_odrl_section(Obligations, obls)
    \o format_odrl_section(Permissions, perms)
    \o format_odrl_section(Prohibitions, pros)

BuildAdoc(t, d, perms, obls, pros) ==
  <<"=", " ">> \o t \o <<"\n", "\n">>
    \o (IF d # <<>> THEN d \o <<"\n", "\n">> ELSE <<>>)
    \o format_odrl_section(Permissions, perms)
    \o format_odrl_section(Obligations, obls)
    \o format_odrl_section(Prohibitions, pros)

(* Variant: the loop is left after its first iteration. *)
RestNone(todo, p) == {}

(* The policies still to be visited once p has been. *)
Rest(todo, p) == todo \ {p}

Init ==
  /\ catalog_graph \in Graphs
  /\ policy_arg \in PolicyArgs
  /\ pc = "start"
  /\ policy_uris = {}
  /\ pending = {}
  /\ policy = policy_arg
  /\ title = <<>>
  /\ description = <<>>
  /\ permissions = <<>>
  /\ obligations = <<>>
  /\ prohibitions = <<>>
  /\ writes = <<>>

(* Lines 54-61: gather the Policy-typed subjects; return when there are none. *)
collect_policy_uris ==
  /\ pc = "start"
  /\ policy_uris' = PolicyUris(catalog_graph)
  /\ pending' = policy_uris'
  /\ pc' = IF policy_uris' = {} THEN "done" ELSE "loop"
  /\ UNCHANGED <<catalog_graph, policy_arg, policy, title, description,
                 permissions, obligations, prohibitions, writes>>

(* Lines 64-126: one iteration of the loop over policy_uris. *)
process_policy ==
  /\ pc = "loop"
  /\ \E p \in pending :
       \E tv \in value(catalog_graph, p, "title"),
          dv \in value(catalog_graph, p, "description"),
          perms \in Collect(catalog_graph, p, "permission"),
          obls \in Collect(catalog_graph, p, "obligation"),
          pros \in Collect(catalog_graph, p, "prohibition") :
         /\ policy' = p
         /\ title' = ResolveTitle(tv, p)
         /\ description' = ResolveDescription(dv)
         /\ permissions' = perms
         /\ obligations' = obls
         /\ prohibitions' = pros
         /\ writes' = Append(writes,
              [adoc_str |-> BuildAdoc(title', description', perms, obls, pros),
               resource |-> p,
               output_dir |-> OutputDir])
         /\ pending' = Rest(pending, p)
         /\ pc' = IF pending' = {} THEN "done" ELSE "loop"
  /\ UNCHANGED <<catalog_graph, policy_arg, policy_uris>>

Next == collect_policy_uris \/ process_policy

Spec == Init /\ [][Next]_vars

(* The function is one synchronous call: it runs until it returns. *)
FairInit == Init /\ Cardinality(catalog_graph) <= MaxTriplesFair

FairSpec == FairInit /\ [][Next]_vars /\ WF_vars(Next)

------------------------------------------------------------------------------
(* Reading a page back: its lines, and what the graph says about a resource. *)

Fence == <<"|","=","=","=">>
ColumnHeader == <<"|"," ","U","I","D"," ","|"," ","D","e","s","c","r","i","p","t","i","o","n"," ","|"," ","A","c","t","i","o","n"," ","|"," ","A","s","s","i","g","n","e","e","(","s",")">>
NoPermissions == <<"*","N","o"," ","p","e","r","m","i","s","s","i","o","n","s"," ","d","e","f","i","n","e","d",".","*">>
NoObligations == <<"*","N","o"," ","o","b","l","i","g","a","t","i","o","n","s"," ","d","e","f","i","n","e","d",".","*">>
NoProhibitions == <<"*","N","o"," ","p","r","o","h","i","b","i","t","i","o","n","s"," ","d","e","f","i","n","e","d",".","*">>

StartsWith(s, pre) == Len(s) >= Len(pre) /\ SubSeq(s, 1, Len(pre)) = pre

EndsWith(s, suf) == Len(s) >= Len(suf) /\ SubSeq(s, Len(s) - Len(suf) + 1, Len(s)) = suf

(* The text split at every newline, as s.split("\n") does. *)
Lines(s) ==
  LET nl == {i \in DOMAIN s : s[i] = "\n"}
      pos(k) == CHOOSE i \in nl : Cardinality({j \in nl : j < i}) = k - 1
      first(k) == IF k = 1 THEN 1 ELSE pos(k - 1) + 1
      last(k) == IF k = Cardinality(nl) + 1 THEN Len(s) ELSE pos(k) - 1
  IN  [k \in 1..(Cardinality(nl) + 1) |-> SubSeq(s, first(k), last(k))]

(* Line i, or a text no line can be when there is no line i. *)
LineAt(L, i) == IF i \in DOMAIN L THEN L[i] ELSE <<"\n">>

(* The objects of the triples <<s, p, _>> of the graph, read off the triples. *)
Linked(s, p) == {t[3] : t \in {x \in catalog_graph : x[1] = s /\ x[2] = p}}

TypedPolicies == {t[1] : t \in {x \in catalog_graph : x[2] = "type" /\ x[3] = ODRL_Policy}}

RulePredicates == {"permission", "obligation", "prohibition"}

HasNoRules(p) == \A pred \in RulePredicates : Linked(p, pred) = {}

Written == writes # <<>>

Last == writes[Len(writes)]

LastLines == Lines(Last.adoc_str)

------------------------------------------------------------------------------
(* C1: when no subject of the graph is typed odrl:Policy, write_file is     *)
(* never called and the call returns from its guard (no loop iteration is   *)
(* entered), whatever the policy argument is.                               *)
C1_NoPolicyNoWrite ==
  (TypedPolicies = {}) =>
     /\ writes = <<>>
     /\ pc \in {"start", "done"}
     /\ policy = policy_arg
     /\ (pc = "start" => ENABLED collect_policy_uris)

C1_Witness ==
  /\ TypedPolicies = {}
  /\ pc = "done"
  /\ <<P2, "type", ODRL_Asset>> \in catalog_graph
  /\ <<P1, "permission", R1>> \in catalog_graph

WrittenFor(p) == {i \in DOMAIN writes : writes[i].resource = p}

ExactlyOncePerPolicy ==
  /\ \A p \in TypedPolicies : Cardinality(WrittenFor(p)) = 1
  /\ \A i \in DOMAIN writes :
       /\ writes[i].resource \in TypedPolicies
       /\ writes[i].output_dir = OutputDir

(* C2: one call terminates, and when it has returned write_file has been    *)
(* called exactly once for each Policy-typed subject, with the directory    *)
(* modules/policy/pages/, and for no other resource.                        *)
C2_TerminatesOncePerPolicy ==
  /\ <>(pc = "done")
  /\ [](pc = "done" => ExactlyOncePerPolicy)

C2_Witness ==
  /\ pc = "done"
  /\ Len(writes) = 2
  /\ policy_arg = R1
  /\ \E i \in DOMAIN writes : HasNoRules(writes[i].resource)
  /\ \E i \in DOMAIN writes : ~HasNoRules(writes[i].resource)

IsPlaceholderLine(l) ==
  StartsWith(l, <<"*","N","o"," ">>) /\ EndsWith(l, <<" ","d","e","f","i","n","e","d",".","*">>)

(* C3: the page of a policy without permissions, obligations and            *)
(* prohibitions has exactly three placeholder lines, "*No permissions       *)
(* defined.*", "*No obligations defined.*", "*No prohibitions defined.*" in *)
(* this order, each followed by a blank line, and no table.                 *)
C3_ThreePlaceholders ==
  (Written /\ HasNoRules(Last.resource)) =>
     LET L == LastLines
         ph == {i \in DOMAIN L : IsPlaceholderLine(L[i])}
     IN  /\ Cardinality(ph) = 3
         /\ \E i, j, k \in ph :
              /\ i < j /\ j < k
              /\ L[i] = NoPermissions /\ L[j] = NoObligations /\ L[k] = NoProhibitions
              /\ j = i + 2 /\ k = j + 2
              /\ LineAt(L, i + 1) = <<>> /\ LineAt(L, j + 1) = <<>> /\ LineAt(L, k + 1) = <<>>
         /\ \A i \in DOMAIN L : L[i] # Fence

C3_Witness ==
  /\ Written
  /\ HasNoRules(Last.resource)
  /\ Linked(Last.resource, "description") # {}

Drop(s, n) == SubSeq(s, n + 1, Len(s))

(* The first position of sub in s, or 0. *)
FindSub(s, sub) ==
  LET at == {i \in 1..(Len(s) + 1) : i + Len(sub) - 1 <= Len(s) /\ SubSeq(s, i, i + Len(sub) - 1) = sub}
  IN  IF at = {} THEN 0 ELSE CHOOSE i \in at : \A j \in at : i <= j

CellSep == <<" ", "|", " ">>

Sections ==
  { <<"permission", Permissions>>, <<"obligation", Obligations>>, <<"prohibition", Prohibitions>> }

(* The data rows of the table headed .name among the lines L (none if there is no such table). *)
SectionRows(L, name) ==
  LET starts == {k \in DOMAIN L : L[k] = <<".">> \o name /\ LineAt(L, k + 1) = Fence}
  IN  IF starts = {} THEN <<>>
      ELSE LET k == CHOOSE x \in starts : \A y \in starts : x <= y
               ends == {j \in DOMAIN L : j >= k + 4 /\ L[j] = Fence}
               j == IF ends = {} THEN Len(L) + 1 ELSE CHOOSE x \in ends : \A y \in ends : x <= y
           IN  SubSeq(L, k + 4, j - 1)

RowPrefix(r) == <<"|", " ">> \o r.text \o CellSep

RowsFor(rows, r) == {i \in DOMAIN rows : StartsWith(rows[i], RowPrefix(r))}

(* The text of a row up to the first " | ", and what follows that separator. *)
FirstCell(s) == LET k == FindSub(s, CellSep) IN IF k = 0 THEN s ELSE SubSeq(s, 1, k - 1)

AfterFirstCell(s) == LET k == FindSub(s, CellSep) IN IF k = 0 THEN <<>> ELSE Drop(s, k + 2)

DescCell(row, r) == FirstCell(Drop(row, Len(RowPrefix(r))))

ActionCell(row, r) == FirstCell(AfterFirstCell(Drop(row, Len(RowPrefix(r)))))

HasPipe(s) == \E i \in DOMAIN s : s[i] = "|"

PipesEscaped(c) == \A i \in DOMAIN c : c[i] = "|" => (i > 1 /\ c[i - 1] = "\\")

(* c with the backslash before each pipe taken away. *)
RECURSIVE Unescape(_)
Unescape(c) ==
  IF c = <<>> THEN <<>>
  ELSE IF Len(c) >= 2 /\ c[1] = "\\" /\ c[2] = "|" THEN <<"|">> \o Unescape(Drop(c, 2))
  ELSE <<c[1]>> \o Unescape(Tail(c))

(* C4: in the row of a rule whose description contains "|", every "|" of    *)
(* the description cell is preceded by a backslash, and the cell is the     *)
(* description with each "|" replaced by "\|" (a|b is rendered a\|b).       *)
C4_DescriptionPipesEscaped ==
  Written =>
    \A sec \in Sections : \A r \in Linked(Last.resource, sec[1]) :
      \A d \in Linked(r, "description") :
        HasPipe(d.text) =>
          LET rows == SectionRows(LastLines, sec[2])
          IN  /\ RowsFor(rows, r) # {}
              /\ \A i \in RowsFor(rows, r) :
                   /\ PipesEscaped(DescCell(rows[i], r))
                   /\ Unescape(DescCell(rows[i], r)) = d.text
                   /\ Len(DescCell(rows[i], r)) = Len(d.text) + Cardinality({k \in DOMAIN d.text : d.text[k] = "|"})

C4_Witness ==
  /\ Written
  /\ \E r \in Linked(Last.resource, "permission") :
       <<r, "description", Literal(<<"|", "|">>)>> \in catalog_graph

(* C5: the row of a rule without a description has an empty description    *)
(* cell, the row of a rule without an action has an empty action cell, and  *)
(* the page is written all the same.                                        *)
C5_MissingLiteralIsEmpty ==
  Written =>
    \A sec \in Sections : \A r \in Linked(Last.resource, sec[1]) :
      LET rows == SectionRows(LastLines, sec[2])
      IN  /\ RowsFor(rows, r) # {}
          /\ \A i \in RowsFor(rows, r) :
               /\ Linked(r, "description") = {} =>
                    (DescCell(rows[i], r) = <<>> /\ FindSub(rows[i], NoneText) = 0)
               /\ Linked(r, "action") = {} =>
                    (ActionCell(rows[i], r) = <<>> /\ FindSub(rows[i], NoneText) = 0)

C5_Witness ==
  /\ Written
  /\ \E sec \in Sections : \E r \in Linked(Last.resource, sec[1]) :
       /\ Linked(r, "description") = {}
       /\ Linked(r, "action") = {}
       /\ Linked(r, "assignee") # {}

C7_TitleAndDescriptionVerbatim ==
  Written =>
    /\ Linked(Last.resource, "title") # {} =>
         \E t \in Linked(Last.resource, "title") : LineAt(LastLines, 1) = <<"=", " ">> \o t.text
    /\ Linked(Last.resource, "description") # {} =>
         \E d \in Linked(Last.resource, "description") :
           LineAt(LastLines, 3) = d.text /\ LineAt(LastLines, 4) = <<>>

(* The index after the section fragment that starts at line k, or 0 when    *)
(* no fragment for this section starts there.                               *)
AfterSection(L, k, name, placeholder) ==
  IF LineAt(L, k) = placeholder /\ LineAt(L, k + 1) = <<>> THEN k + 2
  ELSE IF /\ LineAt(L, k) = <<".">> \o name
          /\ LineAt(L, k + 1) = Fence
          /\ LineAt(L, k + 2) = ColumnHeader
          /\ LineAt(L, k + 3) = <<>>
       THEN LET ends == {j \in DOMAIN L : j >= k + 4 /\ L[j] = Fence}
            IN  IF ends = {} THEN 0
                ELSE LET j == CHOOSE x \in ends : \A y \in ends : x <= y
                     IN  IF /\ j > k + 4
                            /\ \A i \in (k + 4)..(j - 1) : StartsWith(L[i], <<"|", " ">>)
                            /\ LineAt(L, j + 1) = <<>>
                         THEN j + 2 ELSE 0
  ELSE 0

(* C8: a page is the heading "= <title>" and a blank line, then the         *)
(* description and a blank line exactly when the description is not empty,  *)
(* then the Permissions, Obligations and Prohibitions fragments in this     *)
(* order, and nothing else.                                                 *)
C8_PageLayout ==
  Written =>
    LET L == LastLines
        k0 == IF description # <<>> THEN 5 ELSE 3
        k1 == AfterSection(L, k0, Permissions, NoPermissions)
        k2 == AfterSection(L, k1, Obligations, NoObligations)
        k3 == AfterSection(L, k2, Prohibitions, NoProhibitions)
    IN  /\ LineAt(L, 1) = <<"=", " ">> \o title
        /\ LineAt(L, 2) = <<>>
        /\ description # <<>> => (LineAt(L, 3) = description /\ LineAt(L, 4) = <<>>)
        /\ k1 # 0 /\ k2 # 0 /\ k3 # 0
        /\ k3 = Len(L) /\ L[k3] = <<>>

C8_Witness ==
  /\ Written
  /\ description # <<>>
  /\ Linked(Last.resource, "permission") = {}
  /\ Linked(Last.resource, "obligation") # {}
  /\ Linked(Last.resource, "prohibition") = {}

(* The texts a literal lookup may give: those in the graph, or the empty text. *)
TextsOrEmpty(s, p) == IF Linked(s, p) = {} THEN {<<>>} ELSE {o.text : o \in Linked(s, p)}

(* The members of S joined by ", ", in any order. *)
RECURSIVE Joined(_)
Joined(S) ==
  IF S = {} THEN {<<>>}
  ELSE UNION { { x.text \o (IF S \ {x} = {} THEN <<>> ELSE <<",", " ">> \o rest) :
                   rest \in Joined(S \ {x}) } : x \in S }

(* Whether row is the row of rule r: its id, description, action and assignees. *)
IsRowOf(row, r) ==
  /\ StartsWith(row, RowPrefix(r))
  /\ \E a \in TextsOrEmpty(r, "action"), asg \in Joined(Linked(r, "assignee")) :
       LET suffix == CellSep \o a \o CellSep \o asg
           body == Drop(row, Len(RowPrefix(r)))
       IN  /\ EndsWith(body, suffix)
           /\ LET cell == SubSeq(body, 1, Len(body) - Len(suffix))
              IN  PipesEscaped(cell) /\ Unescape(cell) \in TextsOrEmpty(r, "description")

(* C9: the rows of each section are the rules linked from the policy by     *)
(* that section's predicate, one row each, with the rule's id, description, *)
(* action and assignees joined by ", "; a rule linked by two predicates has *)
(* a row in both sections.                                                  *)
C9_RowsAreLinkedRules ==
  Written =>
    \A sec \in Sections :
      LET rows == SectionRows(LastLines, sec[2])
          rules == Linked(Last.resource, sec[1])
      IN  /\ Len(rows) = Cardinality(rules)
          /\ \A r \in rules : \E i \in DOMAIN rows : IsRowOf(rows[i], r)
          /\ \A i \in DOMAIN rows : \E r \in rules : IsRowOf(rows[i], r)

C9_Witness ==
  /\ Written
  /\ \E r \in Linked(Last.resource, "permission") :
       /\ r \in Linked(Last.resource, "obligation")
       /\ Linked(r, "assignee") # {}

UnescapedPipes(row) == {i \in DOMAIN row : row[i] = "|" /\ (i = 1 \/ row[i - 1] # "\\")}

(* C10: every data row of every table has exactly four unescaped "|".       *)
C10_FourCells ==
  Written =>
    \A sec \in Sections :
      LET rows == SectionRows(LastLines, sec[2])
      IN  \A i \in DOMAIN rows : Cardinality(UnescapedPipes(rows[i])) = 4

====
